---------------------------- MODULE Spec2Model ----------------------------
(***************************************************************************)
(* Model of the SOOP chat client (soop_chat_client.py): the frame codec,   *)
(* the connect()/disconnect() lifecycle, the receive loop, the keepalive   *)
(* task and the event dispatch.                                            *)
(*                                                                         *)
(* Text is modelled as a sequence of Unicode code points (a Python str).   *)
(* The wall-clock "time" field of an event is not modelled.                *)
(***************************************************************************)
EXTENDS Integers, Sequences, FiniteSets, TLC

(***************************************************************************)
(* Bounds of the model.                                                    *)
(***************************************************************************)
MaxFrames == 4
MaxCloses == 2
MaxPings == 1
MaxText == 2
MaxSegs == 9
MaxClock == 180
MaxSubs == 2
MaxConnects == 1

(***************************************************************************)
(* ChatDelimiter                                                           *)
(***************************************************************************)
STARTER == <<27, 9>>
SEPARATOR == 12

(***************************************************************************)
(* ChatType: 4-character decimal type codes.                               *)
(***************************************************************************)
ChatType_PING == <<48, 48, 48, 48>>
ChatType_CONNECT == <<48, 48, 48, 49>>
ChatType_ENTER_CHAT_ROOM == <<48, 48, 48, 50>>
ChatType_EXIT == <<48, 48, 48, 52>>
ChatType_CHAT == <<48, 48, 48, 53>>
ChatType_DISCONNECT == <<48, 48, 48, 55>>
ChatType_ENTER_INFO == <<48, 48, 49, 50>>
ChatType_TEXT_DONATION == <<48, 48, 49, 56>>
ChatType_AD_BALLOON_DONATION == <<48, 48, 56, 55>>
ChatType_SUBSCRIBE == <<48, 48, 57, 51>>
ChatType_NOTIFICATION == <<48, 49, 48, 52>>
ChatType_EMOTICON == <<48, 49, 48, 57>>
ChatType_VIDEO_DONATION == <<48, 49, 48, 53>>
ChatType_VIEWER == <<48, 49, 50, 55>>

(***************************************************************************)
(* SoopChatEvent: event kinds.                                             *)
(***************************************************************************)
SoopChatEvent_RAW == "raw"
SoopChatEvent_CONNECT == "connect"
SoopChatEvent_DISCONNECT == "disconnect"
SoopChatEvent_ENTER_CHAT_ROOM == "enter_chat_room"
SoopChatEvent_CHAT == "chat"
SoopChatEvent_NOTIFICATION == "notification"
SoopChatEvent_TEXT_DONATION == "text_donation"
SoopChatEvent_VIDEO_DONATION == "video_donation"
SoopChatEvent_AD_BALLOON_DONATION == "ad_balloon_donation"
SoopChatEvent_SUBSCRIBE == "subscribe"
SoopChatEvent_EMOTICON == "emoticon"
SoopChatEvent_VIEWER == "viewer"
SoopChatEvent_EXIT == "exit"
SoopChatEvent_UNKNOWN == "unknown"

(***************************************************************************)
(* Frame codec: pure functions.                                            *)
(***************************************************************************)

\* The code points a Python str can hold and str.encode('utf-8') refuses:
\* the surrogates U+D800..U+DFFF.  A text that holds one has no encoding.
Surrogates == 55296..57343

encodable(text) == \A i \in DOMAIN text : text[i] \notin Surrogates

\* What a codec function gives when str.encode raises instead of returning.
UnicodeEncodeError == "UnicodeEncodeError"

\* Mutant of utf8_width: no character takes more than three bytes.
utf8_width_bmp(c) == IF c < 128 THEN 1 ELSE IF c < 2048 THEN 2 ELSE 3

\* Number of bytes of one code point in UTF-8 (str.encode('utf-8')).
utf8_width(c) ==
    IF c \in Surrogates THEN UnicodeEncodeError
    ELSE IF c < 128 THEN 1
    ELSE IF c < 2048 THEN 2
    ELSE IF c < 65536 THEN 3
    ELSE 4

\* Mutant of get_byte_size: characters are counted, not bytes.
get_byte_size_chars(text) == Len(text)

\* line 218: len(text.encode('utf-8')).
RECURSIVE get_byte_size(_)
get_byte_size(text) ==
    IF ~encodable(text) THEN UnicodeEncodeError
    ELSE IF text = <<>> THEN 0
    ELSE utf8_width(Head(text)) + get_byte_size(Tail(text))

\* The UTF-8 encoding of one code point that has one, and of a text.
utf8_encode(c) ==
    IF c < 128 THEN <<c>>
    ELSE IF c < 2048 THEN <<192 + (c \div 64), 128 + (c % 64)>>
    ELSE IF c < 65536
         THEN <<224 + (c \div 4096), 128 + ((c \div 64) % 64), 128 + (c % 64)>>
         ELSE <<240 + (c \div 262144), 128 + ((c \div 4096) % 64),
                128 + ((c \div 64) % 64), 128 + (c % 64)>>

RECURSIVE utf8_bytes(_)
utf8_bytes(text) ==
    IF ~encodable(text) THEN UnicodeEncodeError
    ELSE IF text = <<>> THEN <<>>
    ELSE utf8_encode(Head(text)) \o utf8_bytes(Tail(text))

\* bytes.decode('utf-8') of the strict codec: [ok, text], ok false where it
\* raises UnicodeDecodeError (a stray or missing continuation byte, an
\* overlong form, an encoded surrogate, a value above U+10FFFF).
utf8_lead(b) ==
    IF b < 128 THEN 1
    ELSE IF b \in 194..223 THEN 2
    ELSE IF b \in 224..239 THEN 3
    ELSE IF b \in 240..244 THEN 4
    ELSE 0

utf8_point(bytes, n) ==
    IF n = 1 THEN bytes[1]
    ELSE IF n = 2 THEN (bytes[1] - 192) * 64 + (bytes[2] - 128)
    ELSE IF n = 3
         THEN (bytes[1] - 224) * 4096 + (bytes[2] - 128) * 64 + (bytes[3] - 128)
         ELSE (bytes[1] - 240) * 262144 + (bytes[2] - 128) * 4096
                 + (bytes[3] - 128) * 64 + (bytes[4] - 128)

RECURSIVE utf8_decode(_)
utf8_decode(bytes) ==
    IF bytes = <<>> THEN [ok |-> TRUE, text |-> <<>>]
    ELSE LET n == utf8_lead(bytes[1])
             c == utf8_point(bytes, n)
             rest == utf8_decode(SubSeq(bytes, n + 1, Len(bytes)))
         IN  IF \/ n = 0
                \/ Len(bytes) < n
                \/ \E i \in 2..n : bytes[i] \notin 128..191
                \/ n = 3 /\ (c < 2048 \/ c \in Surrogates)
                \/ n = 4 /\ (c < 65536 \/ c > 1114111)
                \/ ~rest.ok
             THEN [ok |-> FALSE, text |-> <<>>]
             ELSE [ok |-> TRUE, text |-> <<c>> \o rest.text]

\* str(n) for n >= 0: the decimal digits.
RECURSIVE str(_)
str(n) == IF n < 10 THEN <<48 + n>> ELSE str(n \div 10) \o <<48 + (n % 10)>>

\* s.zfill(width) for a string of digits.
RECURSIVE zfill(_, _)
zfill(s, width) == IF Len(s) >= width THEN s ELSE zfill(<<48>> \o s, width)

get_payload_length(payload) ==
    IF ~encodable(payload) THEN UnicodeEncodeError
    ELSE zfill(str(get_byte_size(payload)), 6)

get_packet(chat_type, payload) ==
    IF ~encodable(payload) THEN UnicodeEncodeError
    ELSE STARTER \o chat_type \o get_payload_length(payload) \o <<48, 48>>
            \o payload

\* Mutant of get_connect_packet: the frame is built with the JOIN type code.
get_connect_packet_mistyped ==
    get_packet(ChatType_ENTER_CHAT_ROOM,
               <<SEPARATOR, SEPARATOR, SEPARATOR, 49, 54, SEPARATOR>>)

get_connect_packet ==
    get_packet(ChatType_CONNECT,
               <<SEPARATOR, SEPARATOR, SEPARATOR, 49, 54, SEPARATOR>>)

get_join_packet(chat_no) ==
    get_packet(ChatType_ENTER_CHAT_ROOM,
               <<SEPARATOR>> \o chat_no
                  \o <<SEPARATOR, SEPARATOR, SEPARATOR, SEPARATOR, SEPARATOR>>)

get_ping_packet == get_packet(ChatType_PING, <<SEPARATOR>>)

\* packet.startswith(prefix)
startswith(packet, prefix) ==
    /\ Len(packet) >= Len(prefix)
    /\ SubSeq(packet, 1, Len(prefix)) = prefix

\* Python slice packet[lo:hi] (0-based, hi exclusive, clipped to the length).
slice(packet, lo, hi) ==
    SubSeq(packet, lo + 1, IF hi < Len(packet) THEN hi ELSE Len(packet))

\* _parse_message_type: ok = FALSE stands for the raised Exception.
parse_message_type(packet) ==
    IF ~startswith(packet, STARTER)
    THEN [ok |-> FALSE, type |-> <<>>]
    ELSE IF Len(packet) >= 5
         THEN [ok |-> TRUE, type |-> slice(packet, 2, 6)]
         ELSE [ok |-> FALSE, type |-> <<>>]

\* packet.split(SEPARATOR): always at least one part.
RECURSIVE split_from(_, _, _)
split_from(rest, cur, acc) ==
    IF rest = <<>> THEN Append(acc, cur)
    ELSE IF Head(rest) = SEPARATOR
         THEN split_from(Tail(rest), <<>>, Append(acc, cur))
         ELSE split_from(Tail(rest), Append(cur, Head(rest)), acc)

\* Mutant of split: empty parts are dropped.
split_nonempty(packet) ==
    SelectSeq(split_from(packet, <<>>, <<>>), LAMBDA p : p # <<>>)

split(packet) == split_from(packet, <<>>, <<>>)

\* parts[i] if len(parts) > i else ""   (i is 0-based)
part(parts, i) == IF Len(parts) > i THEN parts[i + 1] ELSE <<>>

parse_connect(packet) ==
    [username |-> part(split(packet), 1), syn |-> part(split(packet), 2)]

parse_enter_chat_room(packet) ==
    [streamer_id |-> part(split(packet), 2), syn_ack |-> part(split(packet), 7)]

\* Mutant of parse_chat: every index one lower.
parse_chat_shifted(packet) ==
    [comment |-> part(split(packet), 0),
     user_id |-> part(split(packet), 1),
     username |-> part(split(packet), 5)]

parse_chat(packet) ==
    [comment |-> part(split(packet), 1),
     user_id |-> part(split(packet), 2),
     username |-> part(split(packet), 6)]

parse_notification(packet) ==
    [notification |-> part(split(packet), 4)]

parse_donation(packet) ==
    [to |-> part(split(packet), 2),
     from |-> part(split(packet), 3),
     from_username |-> part(split(packet), 4),
     amount |-> part(split(packet), 5)]

parse_emoticon(packet) ==
    [emoticon_id |-> part(split(packet), 3),
     user_id |-> part(split(packet), 6),
     username |-> part(split(packet), 7)]


\* Mutant of branch_of: a type code no branch names is handled as 0007.
branch_of_strict(msg_type) ==
    IF msg_type = ChatType_CONNECT THEN SoopChatEvent_CONNECT
    ELSE IF msg_type = ChatType_ENTER_CHAT_ROOM THEN SoopChatEvent_ENTER_CHAT_ROOM
    ELSE IF msg_type = ChatType_CHAT THEN SoopChatEvent_CHAT
    ELSE IF msg_type = ChatType_NOTIFICATION THEN SoopChatEvent_NOTIFICATION
    ELSE IF msg_type = ChatType_TEXT_DONATION THEN SoopChatEvent_TEXT_DONATION
    ELSE IF msg_type = ChatType_VIDEO_DONATION THEN SoopChatEvent_VIDEO_DONATION
    ELSE IF msg_type = ChatType_AD_BALLOON_DONATION
         THEN SoopChatEvent_AD_BALLOON_DONATION
    ELSE IF msg_type = ChatType_EMOTICON THEN SoopChatEvent_EMOTICON
    ELSE SoopChatEvent_DISCONNECT

(***************************************************************************)
(* _handle_message: which branch of the if/elif chain (lines 321-388) a    *)
(* parsed type code takes, named by the event kind that branch emits.      *)
(***************************************************************************)
branch_of(msg_type) ==
    IF msg_type = ChatType_CONNECT THEN SoopChatEvent_CONNECT
    ELSE IF msg_type = ChatType_ENTER_CHAT_ROOM THEN SoopChatEvent_ENTER_CHAT_ROOM
    ELSE IF msg_type = ChatType_CHAT THEN SoopChatEvent_CHAT
    ELSE IF msg_type = ChatType_NOTIFICATION THEN SoopChatEvent_NOTIFICATION
    ELSE IF msg_type = ChatType_TEXT_DONATION THEN SoopChatEvent_TEXT_DONATION
    ELSE IF msg_type = ChatType_VIDEO_DONATION THEN SoopChatEvent_VIDEO_DONATION
    ELSE IF msg_type = ChatType_AD_BALLOON_DONATION
         THEN SoopChatEvent_AD_BALLOON_DONATION
    ELSE IF msg_type = ChatType_EMOTICON THEN SoopChatEvent_EMOTICON
    ELSE IF msg_type = ChatType_DISCONNECT THEN SoopChatEvent_DISCONNECT
    ELSE SoopChatEvent_UNKNOWN

\* The branches that only parse the packet and emit one event.
ParseOnlyKinds ==
    {SoopChatEvent_CHAT, SoopChatEvent_NOTIFICATION, SoopChatEvent_TEXT_DONATION,
     SoopChatEvent_VIDEO_DONATION, SoopChatEvent_AD_BALLOON_DONATION,
     SoopChatEvent_EMOTICON}

\* The payload (without "time") those branches emit.
parsed_data(kind, packet) ==
    IF kind = SoopChatEvent_CHAT THEN parse_chat(packet)
    ELSE IF kind = SoopChatEvent_NOTIFICATION THEN parse_notification(packet)
    ELSE IF kind = SoopChatEvent_EMOTICON THEN parse_emoticon(packet)
    ELSE parse_donation(packet)

(***************************************************************************)
(* Inputs of a run: the streamer id, the room numbers the resolver may     *)
(* return and the frames the chat server may send.                         *)
(***************************************************************************)
StreamerId == <<98, 106>>
\* The room of the scripted sessions, "99", and the room numbers of the runs
\* that vary it.
ScenarioRoom == <<57, 57>>
ChatNos == {ScenarioRoom, <<55>>}

\* A CHATNO the resolver's JSON can carry ("\ud800") and UTF-8 cannot encode.
RoomSurrogate == <<55296>>

FrameConnect == get_packet(ChatType_CONNECT, <<SEPARATOR, 117, SEPARATOR, 115, SEPARATOR>>)
FrameEnter ==
    get_packet(ChatType_ENTER_CHAT_ROOM,
               <<SEPARATOR, SEPARATOR, 98, SEPARATOR, SEPARATOR, SEPARATOR,
                 SEPARATOR, SEPARATOR, 107, SEPARATOR>>)
FrameChat ==
    get_packet(ChatType_CHAT,
               <<SEPARATOR, 88, SEPARATOR, 117, 55, SEPARATOR, SEPARATOR,
                 SEPARATOR, SEPARATOR, 78, SEPARATOR>>)
FrameDisconnect == get_packet(ChatType_DISCONNECT, <<SEPARATOR>>)

\* The frames of a scripted session: 0001, 0002, 0005, 0007.
SessionMenu == {FrameConnect, FrameEnter, FrameChat, FrameDisconnect}

\* One well-formed frame per type code: every code ChatType names and two
\* codes it does not name, all with the same eight-field payload.
KindPayload ==
    <<SEPARATOR, 97, SEPARATOR, 98, SEPARATOR, 99, SEPARATOR, 100, SEPARATOR,
      101, SEPARATOR, 102, SEPARATOR, 103, SEPARATOR>>

KindCodes ==
    {ChatType_PING, ChatType_CONNECT, ChatType_ENTER_CHAT_ROOM, ChatType_EXIT,
     ChatType_CHAT, ChatType_DISCONNECT, ChatType_ENTER_INFO,
     ChatType_TEXT_DONATION, ChatType_AD_BALLOON_DONATION, ChatType_SUBSCRIBE,
     ChatType_NOTIFICATION, ChatType_EMOTICON, ChatType_VIDEO_DONATION,
     ChatType_VIEWER, <<57, 57, 57, 57>>, <<48, 48, 48, 51>>}

KindFrames == {get_packet(code, KindPayload) : code \in KindCodes}

\* Malformed inbound messages: no STARTER, and STARTER with a short header.
FrameBad == <<88, SEPARATOR>>
FrameShort == STARTER \o <<48, 48>>

\* A chat frame whose payload is X SEP user7 SEP SEP SEP SEP SEP NickX SEP.
ScenarioPayload ==
    <<88, SEPARATOR, 117, 115, 101, 114, 55, SEPARATOR, SEPARATOR, SEPARATOR,
      SEPARATOR, SEPARATOR, 78, 105, 99, 107, 88, SEPARATOR>>

FrameChatScenario == get_packet(ChatType_CHAT, ScenarioPayload)

\* STARTER and less than a header: three characters of a type code, and a
\* whole type code with nothing after it.
FrameTruncated == STARTER \o <<48, 48, 48>>
FrameHeaderless == STARTER \o ChatType_CHAT

\* A binary message (bytes): the tag -1, which is no code point, and then
\* the byte values.  Any other message is a text message (str), its code
\* points.
bytes_message(data) == <<-1>> \o data

isinstance_str(data) == data = <<>> \/ data[1] >= 0

\* A chat frame with a three-byte character sent as a binary message, and a
\* binary message that is no UTF-8.
FrameChatBinary ==
    bytes_message(utf8_bytes(get_packet(ChatType_CHAT,
                                        <<SEPARATOR, 44032, SEPARATOR>>)))
FrameUndecodable == bytes_message(<<255, 254>>)

\* The menus of the runs that feed one malformed message.
MalformedMenus ==
    {{FrameConnect, f} :
        f \in {FrameBad, FrameShort, FrameTruncated, FrameHeaderless,
               FrameChatBinary, FrameUndecodable}}

\* The menus of the runs that feed one kind of frame after the handshake.
KindMenus == {{FrameConnect, f} : f \in KindFrames \cup {FrameBad, FrameShort}}

(***************************************************************************)
(* Inputs of the codec functions applied on their own: room numbers over   *)
(* an alphabet with characters of 1, 2, 3 and 4 UTF-8 bytes and a lone     *)
(* surrogate, which UTF-8 cannot encode, and messages                      *)
(* given by their SEPARATOR-delimited segments.                            *)
(***************************************************************************)
CodecAlphabet == {55, 233, 44032, 128512, 55296}

RECURSIVE Texts(_)
Texts(n) ==
    IF n = 0 THEN {<<>>}
    ELSE Texts(n - 1) \cup {Append(t, c) : t \in Texts(n - 1), c \in CodecAlphabet}

\* The segment at position k (0-based) of an input message: empty or a marker.
SegOptions(k) == {<<>>, <<97 + k, 48 + k>>}

RECURSIVE SegLists(_)
SegLists(n) ==
    IF n = 1 THEN {<<seg>> : seg \in SegOptions(0)}
    ELSE SegLists(n - 1) \cup
         {Append(l, seg) : l \in {x \in SegLists(n - 1) : Len(x) = n - 1},
                           seg \in SegOptions(n - 1)}

\* The message made of the segments, SEPARATOR between them.
RECURSIVE join_segments(_)
join_segments(segs) ==
    IF Len(segs) = 1 THEN segs[1]
    ELSE segs[1] \o <<SEPARATOR>> \o join_segments(Tail(segs))

CodecInputs ==
    {[op |-> "none", text |-> t, segs |-> <<<<>>>>, out |-> <<>>] :
        t \in Texts(MaxText)}
    \cup {[op |-> "none", text |-> <<>>, segs |-> l, out |-> <<>>] :
             l \in SegLists(MaxSegs)}

(***************************************************************************)
(* Dispatcher inputs: the event kinds handlers are registered for, and the *)
(* handlers a caller may register; "boom" is a handler that raises.        *)
(***************************************************************************)
EventKinds ==
    {SoopChatEvent_RAW, SoopChatEvent_CONNECT, SoopChatEvent_DISCONNECT,
     SoopChatEvent_ENTER_CHAT_ROOM, SoopChatEvent_CHAT,
     SoopChatEvent_NOTIFICATION, SoopChatEvent_TEXT_DONATION,
     SoopChatEvent_VIDEO_DONATION, SoopChatEvent_AD_BALLOON_DONATION,
     SoopChatEvent_SUBSCRIBE, SoopChatEvent_EMOTICON, SoopChatEvent_VIEWER,
     SoopChatEvent_EXIT, SoopChatEvent_UNKNOWN}

HandlerIds == {"h1", "boom"}
RaisingHandlers == {"boom"}

\* The kinds the callers of the runs with subscribers register for.
SubKinds == {SoopChatEvent_RAW, SoopChatEvent_CHAT}

\* The frames the server sends in those runs.
DispatchMenu == {FrameConnect, FrameChat}

\* asyncio.sleep(60) of _ping_loop, in seconds.
PingInterval == 60

(***************************************************************************)
(* State.                                                                  *)
(***************************************************************************)
VARIABLES
    pc,           \* where the connect() coroutine is
    outcome,      \* how connect() ended: "none" while it has not
    live_detail,  \* self.live_detail
    ws,           \* self.ws: "None" or "ws"
    sock,         \* the connection behind self.ws: none, open, closing, closed
    close_err,    \* the connection closed abnormally (ConnectionClosedError)
    connected,    \* self._connected
    entered,      \* self._entered
    ping_task,    \* self._ping_task: "None" or "task"
    ping,         \* the _ping_loop task: none, running, cancelled, exited
    sent,         \* frames written to the socket, in order
    received,     \* inbound messages handed to _handle_message, in order
    emitted,      \* _emit calls, in order: [kind, data, frame]
    menu,         \* the messages the chat server may send in this run
    rooms,        \* the room numbers the resolver may answer in this run
    cpc,          \* a caller's own disconnect() call: idle, or closing (in ws.close())
    closes,       \* calls of disconnect() that caller has made
    cdone,        \* of which have returned
    handlers,     \* self.handlers: event kind -> handlers in registration order
    calls,        \* handler invocations, in order: [handler, kind, emit]
    now,          \* seconds on the clock since the keepalive task was created
    wake,         \* the clock value at which the keepalive's sleep ends
    probe         \* a codec function applied on its own: [op, text, segs, out]

vars == <<pc, outcome, live_detail, ws, sock, close_err, connected, entered,
          ping_task, ping, sent, received, emitted, menu, rooms, cpc, closes,
          cdone, handlers, calls, now, wake, probe>>

\* What no step of the session changes: the run's inputs, the handler
\* table, the clock and the codec probe.
env_vars == <<menu, rooms, handlers, now, probe>>

\* self.live_detail = None
NoLiveDetail == [is_none |-> TRUE, result |-> 0, chat_no |-> <<>>]

NoProbe == [op |-> "none", text |-> <<>>, segs |-> <<<<>>>>, out |-> <<>>]

\* __init__ (lines 89-96), before connect() is called.
InitFields ==
    /\ pc = "idle"
    /\ outcome = "none"
    /\ live_detail = NoLiveDetail
    /\ ws = "None"
    /\ sock = "none"
    /\ close_err = FALSE
    /\ connected = FALSE
    /\ entered = FALSE
    /\ ping_task = "None"
    /\ ping = "none"
    /\ sent = <<>>
    /\ received = <<>>
    /\ emitted = <<>>
    /\ cpc = "idle"
    /\ closes = 0
    /\ cdone = 0
    /\ handlers = [k \in EventKinds |-> <<>>]
    /\ calls = <<>>
    /\ now = 0
    /\ wake = 0

InitClient == InitFields /\ probe = NoProbe /\ rooms = {ScenarioRoom}

Init == InitClient /\ menu = SessionMenu

InitKinds == InitClient /\ menu \in KindMenus

(***************************************************************************)
(* Dispatcher.  _emit(event, data): recorded as one entry of the log; the  *)
(* frame field is the index in `received` of the inbound message being     *)
(* handled (0: none), kept for stating the ordering properties.            *)
(***************************************************************************)
\* Mutant of emit: the entry is put at the front of the log.
emit_front(log, event, data, frame) ==
    <<[kind |-> event, data |-> data, frame |-> frame]>> \o log

emit(log, event, data, frame) ==
    Append(log, [kind |-> event, data |-> data, frame |-> frame])

\* lines 167-169: a handler of `event` raises; nothing catches it in _emit.
emit_raises(event) ==
    \E i \in DOMAIN handlers[event] : handlers[event][i] \in RaisingHandlers

\* lines 167-169: the handlers _emit(event, ...) calls, in order: all of
\* them, or those up to and including the first that raises.
invoked(event) ==
    LET hs == handlers[event]
        bad == {i \in DOMAIN hs : hs[i] \in RaisingHandlers}
    IN  IF bad = {} THEN hs
        ELSE SubSeq(hs, 1, CHOOSE i \in bad : \A j \in bad : i <= j)

\* The invocation log after _emit(event, ...), the n-th _emit call.
deliver(log, event, n) ==
    log \o [i \in 1..Len(invoked(event)) |->
               [handler |-> invoked(event)[i], kind |-> event, emit |-> n]]

\* The number of subscriptions made so far.
Subscriptions ==
    Cardinality({x \in EventKinds \X (1..MaxSubs) : x[2] <= Len(handlers[x[1]])})

\* Mutant of on: the handler is put in front of the list.
on_front(event, handler) ==
    /\ Subscriptions < MaxSubs
    /\ handlers' = [handlers EXCEPT ![event] = <<handler>> \o @]
    /\ UNCHANGED <<pc, outcome, live_detail, ws, sock, close_err, connected,
                   entered, ping_task, ping, sent, received, emitted, menu, rooms,
                   cpc, closes, cdone, calls, now, wake, probe>>

\* on(event, handler), lines 159-163: callable at any time.
on(event, handler) ==
    /\ Subscriptions < MaxSubs
    /\ handlers' = [handlers EXCEPT ![event] = Append(@, handler)]
    /\ UNCHANGED <<pc, outcome, live_detail, ws, sock, close_err, connected,
                   entered, ping_task, ping, sent, received, emitted, menu, rooms,
                   cpc, closes, cdone, calls, now, wake, probe>>

(***************************************************************************)
(* connect()                                                               *)
(***************************************************************************)

\* Mutant of not_live: the liveness check is dropped.
not_live_never(detail) == FALSE

\* line 106: the liveness check on the resolved descriptor.
not_live(detail) == detail.result = 0

\* Mutant of Connect: the guard on self._connected is dropped.
Connect_unguarded(ok, result, chat_no) ==
    /\ pc = "idle"
    /\ IF ~ok
       THEN /\ pc' = "failed"
            /\ outcome' = "ResolveError"
            /\ UNCHANGED live_detail
       ELSE /\ live_detail' =
                  [is_none |-> FALSE, result |-> result, chat_no |-> chat_no]
            /\ IF not_live(live_detail')
               THEN pc' = "failed" /\ outcome' = "NotLive"
               ELSE pc' = "opening" /\ UNCHANGED outcome
    /\ UNCHANGED <<ws, sock, close_err, connected, entered, ping_task, ping,
                   sent, received, emitted, cpc, closes, cdone, calls, wake>>
    /\ UNCHANGED env_vars

\* lines 100-107: the guard, the resolution and the liveness check.
\* _get_live_detail uses a blocking HTTP call: nothing runs in between.
Connect(ok, result, chat_no) ==
    /\ pc = "idle"
    /\ IF connected
       THEN /\ pc' = "failed"
            /\ outcome' = "AlreadyConnected"
            /\ UNCHANGED live_detail
       ELSE IF ~ok
            THEN /\ pc' = "failed"
                 /\ outcome' = "ResolveError"
                 /\ UNCHANGED live_detail
            ELSE /\ live_detail' =
                       [is_none |-> FALSE, result |-> result, chat_no |-> chat_no]
                 /\ IF not_live(live_detail')
                    THEN pc' = "failed" /\ outcome' = "NotLive"
                    ELSE pc' = "opening" /\ UNCHANGED outcome
    /\ UNCHANGED <<ws, sock, close_err, connected, entered, ping_task, ping,
                   sent, received, emitted, cpc, closes, cdone, calls, wake>>
    /\ UNCHANGED env_vars

\* lines 119-123: the WebSocket handshake succeeds.
OpenSocket ==
    /\ pc = "opening"
    /\ ws' = "ws"
    /\ sock' = "open"
    /\ pc' = "opened"
    /\ UNCHANGED <<outcome, live_detail, close_err, connected, entered,
                   ping_task, ping, sent, received, emitted, cpc,
                   closes, cdone, calls, wake>>
    /\ UNCHANGED env_vars

\* lines 119-123: the WebSocket handshake fails; connect() raises.
HandshakeFail ==
    /\ pc = "opening"
    /\ pc' = "failed"
    /\ outcome' = "HandshakeError"
    /\ UNCHANGED <<live_detail, ws, sock, close_err, connected, entered,
                   ping_task, ping, sent, received, emitted, cpc,
                   closes, cdone, calls, wake>>
    /\ UNCHANGED env_vars

\* lines 126-134: send CONNECT, create the keepalive task (which starts its
\* first sleep), enter the receive loop.  A send on a connection the peer
\* already closed raises ConnectionClosed, outside the try block.
SendConnect ==
    /\ pc = "opened"
    /\ IF sock = "open"
       THEN /\ sent' = Append(sent, get_connect_packet)
            /\ ping_task' = "task"
            /\ ping' = "running"
            /\ wake' = now + PingInterval
            /\ pc' = "recv"
            /\ UNCHANGED outcome
       ELSE /\ pc' = "failed"
            /\ outcome' = "ConnectionClosed"
            /\ UNCHANGED <<sent, ping_task, ping, wake>>
    /\ UNCHANGED <<live_detail, ws, sock, close_err, connected, entered,
                   received, emitted, cpc, closes, cdone, calls>>
    /\ UNCHANGED env_vars

(***************************************************************************)
(* disconnect()                                                            *)
(***************************************************************************)

\* lines 144-154, entered with self._connected true: emit `disconnect`,
\* cancel the keepalive task, start closing the socket.  `log` and
\* `delivered` are the event log and the invocation log at the call, `frame`
\* the inbound message being handled (0: none).  When a `disconnect` handler
\* raises, the call ends at line 144.
disconnect_start(log, delivered, frame) ==
    /\ emitted' = emit(log, SoopChatEvent_DISCONNECT,
                       [streamer_id |-> StreamerId], frame)
    /\ calls' = deliver(delivered, SoopChatEvent_DISCONNECT, Len(log) + 1)
    /\ IF emit_raises(SoopChatEvent_DISCONNECT)
       THEN UNCHANGED <<ping, ping_task, sock>>
       ELSE /\ IF ping_task # "None"
               THEN /\ ping' = IF ping = "running" THEN "cancelled" ELSE ping
                    /\ ping_task' = "None"
               ELSE UNCHANGED <<ping, ping_task>>
            /\ sock' = IF ws # "None" /\ sock = "open" THEN "closing" ELSE sock

\* Mutant of disconnect_finish: the socket reference is kept.
disconnect_finish_keeps_ws ==
    /\ connected' = FALSE
    /\ UNCHANGED ws

\* lines 155-157, after `await self.ws.close()` has returned.
disconnect_finish ==
    /\ ws' = "None"
    /\ connected' = FALSE

\* Mutant of LocalDisconnect: the guard on self._connected is dropped.
LocalDisconnect_unguarded ==
    /\ cpc = "idle"
    /\ closes < MaxCloses
    /\ closes' = closes + 1
    /\ disconnect_start(emitted, calls, 0)
    /\ IF emit_raises(SoopChatEvent_DISCONNECT)
       THEN /\ cdone' = cdone + 1
            /\ UNCHANGED <<ws, connected, cpc>>
       ELSE IF ws # "None"
            THEN /\ cpc' = "closing"
                 /\ UNCHANGED <<ws, connected, cdone>>
            ELSE /\ connected' = FALSE
                 /\ cdone' = cdone + 1
                 /\ UNCHANGED <<ws, cpc>>
    /\ UNCHANGED <<pc, outcome, live_detail, close_err, entered, sent,
                   received, wake>>
    /\ UNCHANGED env_vars

\* A caller's own disconnect() call (close()), lines 139-154: a no-op when
\* self._connected is false; otherwise it runs up to `await self.ws.close()`.
LocalDisconnect ==
    /\ cpc = "idle"
    /\ closes < MaxCloses
    /\ closes' = closes + 1
    /\ IF ~connected
       THEN /\ cdone' = cdone + 1
            /\ UNCHANGED <<emitted, calls, ping, ping_task, sock, ws,
                           connected, cpc>>
       ELSE /\ disconnect_start(emitted, calls, 0)
            /\ IF emit_raises(SoopChatEvent_DISCONNECT)
               THEN /\ cdone' = cdone + 1
                    /\ UNCHANGED <<ws, connected, cpc>>
               ELSE IF ws # "None"
                    THEN /\ cpc' = "closing"
                         /\ UNCHANGED <<ws, connected, cdone>>
                    ELSE /\ connected' = FALSE
                         /\ cdone' = cdone + 1
                         /\ UNCHANGED <<ws, cpc>>
    /\ UNCHANGED <<pc, outcome, live_detail, close_err, entered, sent,
                   received, wake>>
    /\ UNCHANGED env_vars

\* The caller's disconnect() resumes once the connection is closed
\* (lines 155-157) and returns.
LocalDisconnectReturn ==
    /\ cpc = "closing"
    /\ sock = "closed"
    /\ disconnect_finish
    /\ cpc' = "idle"
    /\ cdone' = cdone + 1
    /\ UNCHANGED <<pc, outcome, live_detail, sock, close_err, entered,
                   ping_task, ping, sent, received, emitted, closes, calls,
                   wake>>
    /\ UNCHANGED env_vars

(***************************************************************************)
(* The receive loop (lines 133-137) and _handle_message (lines 308-394).   *)
(* An exception a handler raises leaves _emit, _handle_message and the     *)
(* `async for` (it is no ConnectionClosed) and ends connect().             *)
(***************************************************************************)

\* `async for message in self.ws` yields the next inbound message: one that
\* arrives while the connection is open or closing, or one that arrived
\* before it closed and was not read yet.
Receiving ==
    /\ pc = "recv"
    /\ sock \in {"open", "closing", "closed"}
    /\ Len(received) < MaxFrames

\* line 311: the message as text; a binary message is decoded.
decoded(data) ==
    IF isinstance_str(data) THEN [ok |-> TRUE, text |-> data]
    ELSE utf8_decode(Tail(data))

\* line 311: data.decode('utf-8') raises UnicodeDecodeError, before anything
\* is emitted; it is no ConnectionClosed and ends connect().
HandleUndecodable ==
    /\ Receiving
    /\ pc' = "failed"
    /\ outcome' = "UnicodeDecodeError"
    /\ UNCHANGED <<live_detail, ws, sock, close_err, connected, entered,
                   ping_task, ping, sent, received, emitted, cpc, closes,
                   cdone, calls, wake>>
    /\ UNCHANGED env_vars

\* Mutant of raw_log: `raw` is not emitted.
raw_log_none(packet) == emitted

\* line 313: the raw event of the message being handled.
raw_log(packet) ==
    emit(emitted, SoopChatEvent_RAW, packet, Len(received) + 1)

\* line 313: the handlers called for that raw event.
raw_calls == deliver(calls, SoopChatEvent_RAW, Len(emitted) + 1)

\* connect() ends with the exception a handler raised.
handler_fault ==
    /\ pc' = "failed"
    /\ outcome' = "HandlerFault"

\* line 313: a `raw` handler raises, whatever the message.
HandleRawFault(packet) ==
    /\ Receiving
    /\ emit_raises(SoopChatEvent_RAW)
    /\ received' = Append(received, packet)
    /\ emitted' = raw_log(packet)
    /\ calls' = raw_calls
    /\ handler_fault
    /\ UNCHANGED <<live_detail, ws, sock, close_err, connected, entered,
                   ping_task, ping, sent, cpc, closes, cdone, wake>>
    /\ UNCHANGED env_vars

\* lines 315-319: the type cannot be parsed; only `raw` was emitted.
HandleInvalid(packet) ==
    /\ Receiving
    /\ ~emit_raises(SoopChatEvent_RAW)
    /\ ~parse_message_type(packet).ok
    /\ received' = Append(received, packet)
    /\ emitted' = raw_log(packet)
    /\ calls' = raw_calls
    /\ UNCHANGED <<pc, outcome, live_detail, ws, sock, close_err, connected,
                   entered, ping_task, ping, sent, cpc, closes, cdone, wake>>
    /\ UNCHANGED env_vars

\* lines 331-332, after the connect event `log` and its invocations
\* `delivered`: `join_packet = self._get_join_packet()` raises a
\* UnicodeEncodeError for a room number UTF-8 cannot encode; then
\* `await self.ws.send(join_packet)` raises an AttributeError when self.ws
\* is None; both end connect().  send() on a connection that is closing
\* waits for it to close and then raises ConnectionClosed; on a closed
\* connection it raises at once and the except clause (lines 136-137) calls
\* disconnect(), self._connected being true.
send_join(log, delivered) ==
    IF ~encodable(live_detail.chat_no)
    THEN /\ pc' = "failed"
         /\ outcome' = "UnicodeEncodeError"
         /\ emitted' = log
         /\ calls' = delivered
         /\ UNCHANGED <<sent, sock, ping, ping_task>>
    ELSE IF ws = "None"
    THEN /\ pc' = "failed"
         /\ outcome' = "AttributeError"
         /\ emitted' = log
         /\ calls' = delivered
         /\ UNCHANGED <<sent, sock, ping, ping_task>>
    ELSE IF sock = "open"
    THEN /\ sent' = Append(sent, get_join_packet(live_detail.chat_no))
         /\ emitted' = log
         /\ calls' = delivered
         /\ UNCHANGED <<pc, outcome, sock, ping, ping_task>>
    ELSE IF sock = "closing"
    THEN /\ pc' = "join_wait"
         /\ emitted' = log
         /\ calls' = delivered
         /\ UNCHANGED <<sent, outcome, sock, ping, ping_task>>
    ELSE /\ emitted' = emit(log, SoopChatEvent_DISCONNECT,
                            [streamer_id |-> StreamerId], 0)
         /\ calls' = deliver(delivered, SoopChatEvent_DISCONNECT, Len(log) + 1)
         /\ IF emit_raises(SoopChatEvent_DISCONNECT)
            THEN /\ handler_fault
                 /\ UNCHANGED <<ping, ping_task>>
            ELSE /\ pc' = "disc_exc"
                 /\ IF ping_task # "None"
                    THEN /\ ping' = IF ping = "running" THEN "cancelled" ELSE ping
                         /\ ping_task' = "None"
                    ELSE UNCHANGED <<ping, ping_task>>
                 /\ UNCHANGED outcome
         /\ UNCHANGED <<sent, sock>>

\* Mutant of HandleConnect: JOIN is sent for the first 0001 only.
HandleConnect_once(packet) ==
    /\ Receiving
    /\ ~emit_raises(SoopChatEvent_RAW)
    /\ parse_message_type(packet).ok
    /\ branch_of(parse_message_type(packet).type) = SoopChatEvent_CONNECT
    /\ received' = Append(received, packet)
    /\ connected' = TRUE
    /\ LET log == emit(raw_log(packet), SoopChatEvent_CONNECT,
                       [username |-> parse_connect(packet).username,
                        syn |-> parse_connect(packet).syn,
                        streamer_id |-> StreamerId],
                       Len(received) + 1)
           delivered == deliver(raw_calls, SoopChatEvent_CONNECT,
                                Len(emitted) + 2)
       IN  IF emit_raises(SoopChatEvent_CONNECT)
           THEN /\ handler_fault
                /\ emitted' = log
                /\ calls' = delivered
                /\ UNCHANGED <<sent, sock, ping, ping_task>>
           ELSE IF connected
           THEN /\ emitted' = log
                /\ calls' = delivered
                /\ UNCHANGED <<sent, pc, outcome, sock, ping, ping_task>>
           ELSE send_join(log, delivered)
    /\ UNCHANGED <<live_detail, ws, close_err, entered, cpc, closes, cdone,
                   wake>>
    /\ UNCHANGED env_vars

\* lines 321-332: type 0001.
HandleConnect(packet) ==
    /\ Receiving
    /\ ~emit_raises(SoopChatEvent_RAW)
    /\ parse_message_type(packet).ok
    /\ branch_of(parse_message_type(packet).type) = SoopChatEvent_CONNECT
    /\ received' = Append(received, packet)
    /\ connected' = TRUE
    /\ LET log == emit(raw_log(packet), SoopChatEvent_CONNECT,
                       [username |-> parse_connect(packet).username,
                        syn |-> parse_connect(packet).syn,
                        streamer_id |-> StreamerId],
                       Len(received) + 1)
           delivered == deliver(raw_calls, SoopChatEvent_CONNECT,
                                Len(emitted) + 2)
       IN  IF emit_raises(SoopChatEvent_CONNECT)
           THEN /\ handler_fault
                /\ emitted' = log
                /\ calls' = delivered
                /\ UNCHANGED <<sent, sock, ping, ping_task>>
           ELSE send_join(log, delivered)
    /\ UNCHANGED <<live_detail, ws, close_err, entered, cpc, closes, cdone,
                   wake>>
    /\ UNCHANGED env_vars

\* lines 334-341: type 0002.
HandleEnterChatRoom(packet) ==
    /\ Receiving
    /\ ~emit_raises(SoopChatEvent_RAW)
    /\ parse_message_type(packet).ok
    /\ branch_of(parse_message_type(packet).type) = SoopChatEvent_ENTER_CHAT_ROOM
    /\ received' = Append(received, packet)
    /\ emitted' = emit(raw_log(packet), SoopChatEvent_ENTER_CHAT_ROOM,
                       parse_enter_chat_room(packet), Len(received) + 1)
    /\ calls' = deliver(raw_calls, SoopChatEvent_ENTER_CHAT_ROOM,
                        Len(emitted) + 2)
    /\ IF emit_raises(SoopChatEvent_ENTER_CHAT_ROOM)
       THEN handler_fault /\ UNCHANGED entered
       ELSE entered' = TRUE /\ UNCHANGED <<pc, outcome>>
    /\ UNCHANGED <<live_detail, ws, sock, close_err, connected,
                   ping_task, ping, sent, cpc, closes, cdone, wake>>
    /\ UNCHANGED env_vars

\* lines 343-383: chat, notification, the three donations, emoticon.
HandleParsed(packet) ==
    /\ Receiving
    /\ ~emit_raises(SoopChatEvent_RAW)
    /\ parse_message_type(packet).ok
    /\ branch_of(parse_message_type(packet).type) \in ParseOnlyKinds
    /\ received' = Append(received, packet)
    /\ emitted' = emit(raw_log(packet),
                       branch_of(parse_message_type(packet).type),
                       parsed_data(branch_of(parse_message_type(packet).type),
                                   packet),
                       Len(received) + 1)
    /\ calls' = deliver(raw_calls, branch_of(parse_message_type(packet).type),
                        Len(emitted) + 2)
    /\ IF emit_raises(branch_of(parse_message_type(packet).type))
       THEN handler_fault
       ELSE UNCHANGED <<pc, outcome>>
    /\ UNCHANGED <<live_detail, ws, sock, close_err, connected,
                   entered, ping_task, ping, sent, cpc, closes, cdone, wake>>
    /\ UNCHANGED env_vars

\* lines 385-386: type 0007 calls disconnect().
HandleDisconnect(packet) ==
    /\ Receiving
    /\ ~emit_raises(SoopChatEvent_RAW)
    /\ parse_message_type(packet).ok
    /\ branch_of(parse_message_type(packet).type) = SoopChatEvent_DISCONNECT
    /\ received' = Append(received, packet)
    /\ IF ~connected
       THEN /\ emitted' = raw_log(packet)
            /\ calls' = raw_calls
            /\ UNCHANGED <<pc, outcome, ws, sock, connected, ping_task, ping>>
       ELSE /\ disconnect_start(raw_log(packet), raw_calls, Len(received) + 1)
            /\ IF emit_raises(SoopChatEvent_DISCONNECT)
               THEN handler_fault /\ UNCHANGED <<ws, connected>>
               ELSE IF ws # "None"
                    THEN pc' = "disc_msg" /\ UNCHANGED <<ws, connected, outcome>>
                    ELSE connected' = FALSE /\ UNCHANGED <<ws, pc, outcome>>
    /\ UNCHANGED <<live_detail, close_err, entered, sent, cpc,
                   closes, cdone, wake>>
    /\ UNCHANGED env_vars

\* lines 388-394: any other type.
HandleUnknown(packet) ==
    /\ Receiving
    /\ ~emit_raises(SoopChatEvent_RAW)
    /\ parse_message_type(packet).ok
    /\ branch_of(parse_message_type(packet).type) = SoopChatEvent_UNKNOWN
    /\ received' = Append(received, packet)
    /\ emitted' = emit(raw_log(packet), SoopChatEvent_UNKNOWN,
                       [type |-> parse_message_type(packet).type,
                        parts |-> split(packet)],
                       Len(received) + 1)
    /\ calls' = deliver(raw_calls, SoopChatEvent_UNKNOWN, Len(emitted) + 2)
    /\ IF emit_raises(SoopChatEvent_UNKNOWN)
       THEN handler_fault
       ELSE UNCHANGED <<pc, outcome>>
    /\ UNCHANGED <<live_detail, ws, sock, close_err, connected,
                   entered, ping_task, ping, sent, cpc, closes, cdone, wake>>
    /\ UNCHANGED env_vars

handle_packet(packet) ==
    \/ HandleRawFault(packet)
    \/ HandleInvalid(packet)
    \/ HandleConnect(packet)
    \/ HandleEnterChatRoom(packet)
    \/ HandleParsed(packet)
    \/ HandleDisconnect(packet)
    \/ HandleUnknown(packet)

\* _handle_message(data), lines 308-394.
handle_message(data) ==
    IF decoded(data).ok
    THEN handle_packet(decoded(data).text)
    ELSE HandleUndecodable

\* The disconnect() the receiver called (from the 0007 branch or from the
\* except clause) resumes once the connection is closed and returns.
ReceiverDisconnectReturn ==
    /\ pc \in {"disc_msg", "disc_exc"}
    /\ sock = "closed"
    /\ disconnect_finish
    /\ IF pc = "disc_msg"
       THEN pc' = "recv" /\ UNCHANGED outcome
       ELSE pc' = "done" /\ outcome' = "returned"
    /\ UNCHANGED <<live_detail, sock, close_err, entered, ping_task, ping,
                   sent, received, emitted, cpc, closes, cdone, calls, wake>>
    /\ UNCHANGED env_vars

\* The connection closed normally: the `async for` ends and connect()
\* returns without calling disconnect().
LoopEnd ==
    /\ pc = "recv"
    /\ sock = "closed"
    /\ ~close_err
    /\ pc' = "done"
    /\ outcome' = "returned"
    /\ UNCHANGED <<live_detail, ws, sock, close_err, connected, entered,
                   ping_task, ping, sent, received, emitted, cpc,
                   closes, cdone, calls, wake>>
    /\ UNCHANGED env_vars

\* lines 136-137: ConnectionClosed reaches the except clause, from the
\* iteration (abnormal closure) or from the JOIN send; it calls disconnect().
LoopConnectionClosed ==
    /\ \/ pc = "recv" /\ sock = "closed" /\ close_err
       \/ pc = "join_wait" /\ sock = "closed"
    /\ IF ~connected
       THEN /\ pc' = "done"
            /\ outcome' = "returned"
            /\ UNCHANGED <<emitted, calls, ping, ping_task, sock, ws, connected>>
       ELSE /\ disconnect_start(emitted, calls, 0)
            /\ IF emit_raises(SoopChatEvent_DISCONNECT)
               THEN handler_fault /\ UNCHANGED <<ws, connected>>
               ELSE IF ws # "None"
                    THEN /\ pc' = "disc_exc"
                         /\ UNCHANGED <<ws, connected, outcome>>
                    ELSE /\ connected' = FALSE
                         /\ pc' = "done"
                         /\ outcome' = "returned"
                         /\ UNCHANGED ws
    /\ UNCHANGED <<live_detail, close_err, entered, sent, received, cpc,
                   closes, cdone, wake>>
    /\ UNCHANGED env_vars

(***************************************************************************)
(* _ping_loop (lines 244-252).                                             *)
(***************************************************************************)
PingsSent == Cardinality({i \in DOMAIN sent : sent[i] = get_ping_packet})

\* lines 248-252, after a sleep has ended with self.ws set: send a PING;
\* a send on a connection that is not open raises and the loop breaks.
ping_pass ==
    IF sock = "open"
    THEN /\ sent' = Append(sent, get_ping_packet)
         /\ UNCHANGED ping
    ELSE /\ ping' = "exited"
         /\ UNCHANGED sent

\* One pass of the loop, whenever 60 s have gone by (the clock not modelled).
PingTick ==
    /\ ping = "running"
    /\ ws # "None"
    /\ sock = "open" => PingsSent < MaxPings
    /\ ping_pass
    /\ UNCHANGED <<pc, outcome, live_detail, ws, sock, close_err, connected,
                   entered, ping_task, received, emitted, cpc, closes,
                   cdone, calls, wake>>
    /\ UNCHANGED env_vars

\* The clock advances by one second.  Time is counted from the creation of
\* the keepalive task (nothing before it depends on time), and a sleep that
\* has ended resumes the loop before the clock moves on.
Tick ==
    /\ ping # "none"
    /\ now < MaxClock
    /\ ~(ping = "running" /\ now = wake)
    /\ now' = now + 1
    /\ UNCHANGED <<pc, outcome, live_detail, ws, sock, close_err, connected,
                   entered, ping_task, ping, sent, received, emitted, menu, rooms,
                   cpc, closes, cdone, handlers, calls, wake, probe>>

\* Mutant of TimedPing: the loop goes back to sleep without sending.
TimedPing_silent ==
    /\ ping = "running"
    /\ now = wake
    /\ wake' = now + PingInterval
    /\ UNCHANGED <<pc, outcome, live_detail, ws, sock, close_err, connected,
                   entered, ping_task, ping, sent, received, emitted, cpc,
                   closes, cdone, calls>>
    /\ UNCHANGED env_vars

\* lines 246-252 on the clock: asyncio.sleep(60) ends, the pass runs (it is
\* skipped when self.ws is None) and the next sleep starts.
TimedPing ==
    /\ ping = "running"
    /\ now = wake
    /\ wake' = now + PingInterval
    /\ IF ws # "None" THEN ping_pass ELSE UNCHANGED <<sent, ping>>
    /\ UNCHANGED <<pc, outcome, live_detail, ws, sock, close_err, connected,
                   entered, ping_task, received, emitted, cpc, closes,
                   cdone, calls>>
    /\ UNCHANGED env_vars

(***************************************************************************)
(* The network: the connection closes, by the peer or at the end of the    *)
(* closing handshake ws.close() started; normally or abnormally.           *)
(***************************************************************************)
SocketClosed(err) ==
    /\ sock \in {"open", "closing"}
    /\ sock' = "closed"
    /\ close_err' = err
    /\ UNCHANGED <<pc, outcome, live_detail, ws, connected, entered,
                   ping_task, ping, sent, received, emitted, cpc,
                   closes, cdone, calls, wake>>
    /\ UNCHANGED env_vars

Next ==
    \/ \E ok \in BOOLEAN, result \in {0, 1}, chat_no \in rooms :
          Connect(ok, result, chat_no)
    \/ OpenSocket
    \/ HandshakeFail
    \/ SendConnect
    \/ \E data \in menu : handle_message(data)
    \/ ReceiverDisconnectReturn
    \/ LoopEnd
    \/ LoopConnectionClosed
    \/ LocalDisconnect
    \/ LocalDisconnectReturn
    \/ PingTick
    \/ \E err \in BOOLEAN : SocketClosed(err)

\* The client with no handler registered: `emitted` is what a subscriber of
\* every kind would be handed.
Spec == Init /\ [][Next]_vars

\* The same client fed one kind of frame besides the 0001 acknowledgement.
SpecKinds == InitKinds /\ [][Next]_vars

\* The same client fed the scenario chat frame besides the acknowledgement.
InitScenario == InitClient /\ menu = {FrameConnect, FrameChatScenario}

SpecScenario == InitScenario /\ [][Next]_vars

\* The same client fed acknowledgements only.
InitAck ==
    /\ InitFields
    /\ probe = NoProbe
    /\ rooms = ChatNos \cup {RoomSurrogate}
    /\ menu = {FrameConnect}

SpecAck == InitAck /\ [][Next]_vars

\* The client fed acknowledgements and the server's own JOIN-typed frames,
\* for each room number the resolver may answer.
InitHandshake ==
    /\ InitFields
    /\ probe = NoProbe
    /\ rooms = ChatNos
    /\ menu = {FrameConnect, FrameEnter}

SpecHandshake == InitHandshake /\ [][Next]_vars

\* The same client fed acknowledgements and server disconnects.
InitClose == InitClient /\ menu = {FrameConnect, FrameDisconnect}

SpecClose == InitClose /\ [][Next]_vars

\* The sessions opened so far: the CONNECT frames sent.
ConnectsSent ==
    Cardinality({i \in DOMAIN sent : sent[i] = get_connect_packet})

\* The caller calls connect() again (line 98) on the same client, once the
\* previous call has ended, no disconnect() of theirs is pending and no
\* keepalive task of the previous call is left running.  At most MaxConnects
\* sessions are opened: a call that would open one more is not made, a call
\* on a client still marked connected always is.
ConnectAgain ==
    /\ pc \in {"done", "failed"}
    /\ cpc = "idle"
    /\ ping # "running"
    /\ (connected \/ ConnectsSent < MaxConnects)
    /\ pc' = "idle"
    /\ outcome' = "none"
    /\ UNCHANGED <<live_detail, ws, sock, close_err, connected, entered,
                   ping_task, ping, sent, received, emitted, cpc, closes,
                   cdone, calls, wake>>
    /\ UNCHANGED env_vars

NextReconnect ==
    \/ Next
    \/ ConnectAgain

\* The client fed acknowledgements only, connect() called again and again.
InitReconnect == InitClient /\ menu = {FrameConnect}

SpecReconnect == InitReconnect /\ [][NextReconnect]_vars

\* The same client fed one malformed message besides the acknowledgement.
InitMalformed == InitClient /\ menu \in MalformedMenus

SpecMalformed == InitMalformed /\ [][Next]_vars

(***************************************************************************)
(* The codec functions applied on their own to an input: the encoders to   *)
(* a room number, the decoders to a message.                               *)
(***************************************************************************)
apply(op, out) ==
    /\ probe' = [probe EXCEPT !.op = op, !.out = out]
    /\ UNCHANGED <<pc, outcome, live_detail, ws, sock, close_err, connected,
                   entered, ping_task, ping, sent, received, emitted, menu, rooms,
                   cpc, closes, cdone, handlers, calls, now, wake>>

Call_get_packet == apply("get_packet", get_packet(ChatType_CHAT, probe.text))
Call_get_connect_packet == apply("get_connect_packet", get_connect_packet)
Call_get_join_packet == apply("get_join_packet", get_join_packet(probe.text))
Call_get_ping_packet == apply("get_ping_packet", get_ping_packet)
Call_parse_connect ==
    apply("parse_connect", parse_connect(join_segments(probe.segs)))
Call_parse_enter_chat_room ==
    apply("parse_enter_chat_room",
          parse_enter_chat_room(join_segments(probe.segs)))
Call_parse_chat == apply("parse_chat", parse_chat(join_segments(probe.segs)))
Call_parse_notification ==
    apply("parse_notification", parse_notification(join_segments(probe.segs)))
Call_parse_donation ==
    apply("parse_donation", parse_donation(join_segments(probe.segs)))
Call_parse_emoticon ==
    apply("parse_emoticon", parse_emoticon(join_segments(probe.segs)))

InitCodec ==
    InitFields /\ menu = {} /\ rooms = ChatNos /\ probe \in CodecInputs

NextCodec ==
    \/ Call_get_packet
    \/ Call_get_connect_packet
    \/ Call_get_join_packet
    \/ Call_get_ping_packet
    \/ Call_parse_connect
    \/ Call_parse_enter_chat_room
    \/ Call_parse_chat
    \/ Call_parse_notification
    \/ Call_parse_donation
    \/ Call_parse_emoticon

SpecCodec == InitCodec /\ [][NextCodec]_vars

(***************************************************************************)
(* The client with subscribers, some of which raise.                       *)
(***************************************************************************)
InitDispatch == InitClient /\ menu = DispatchMenu

NextDispatch ==
    \/ Next
    \/ \E event \in SubKinds, handler \in HandlerIds : on(event, handler)

SpecDispatch == InitDispatch /\ [][NextDispatch]_vars

\* The client with subscribers of `raw` and `disconnect`, in sessions where
\* the server sends acknowledgements only or disconnects only.
TableKinds == {SoopChatEvent_RAW, SoopChatEvent_DISCONNECT}

InitTable == InitClient /\ menu \in {{FrameConnect}, {FrameDisconnect}}

NextTable ==
    \/ Next
    \/ \E event \in TableKinds, handler \in HandlerIds :
          pc = "idle" /\ on(event, handler)

SpecTable == InitTable /\ [][NextTable]_vars

(***************************************************************************)
(* The session on a clock, with a server that sends no frame: connect(),   *)
(* the keepalive loop driven by its 60 s sleeps, and the peer's closure.   *)
(***************************************************************************)
InitClock == InitClient /\ menu = {}

NextClock ==
    \/ \E ok \in BOOLEAN, result \in {0, 1}, chat_no \in rooms :
          Connect(ok, result, chat_no)
    \/ OpenSocket
    \/ HandshakeFail
    \/ SendConnect
    \/ Tick
    \/ TimedPing
    \/ LoopEnd
    \/ LoopConnectionClosed
    \/ \E err \in BOOLEAN : SocketClosed(err)

SpecClock == InitClock /\ [][NextClock]_vars

(***************************************************************************)
(* Properties.                                                             *)
(***************************************************************************)
TypeOf(packet) == parse_message_type(packet).type

KindsOf(log) == [i \in DOMAIN log |-> log[i].kind]

DisconnectCount ==
    Cardinality({i \in DOMAIN emitted :
                    emitted[i].kind = SoopChatEvent_DISCONNECT})

\* The session state an operation may change: everything but the logs of
\* what was received and emitted and the count of the caller's calls.
session_state ==
    <<pc, outcome, live_detail, ws, sock, close_err, connected, entered,
      ping_task, ping, sent, cpc>>

\* C1: in every session the `disconnect` event is emitted at most once, and
\* exactly once when connect() has returned after the socket was opened.
C1_DisconnectExactlyOnce ==
    /\ DisconnectCount <= 1
    /\ pc = "done" => DisconnectCount = 1

\* C2: when a caller's close() (disconnect()) call completes, whatever the
\* session state it was made in, the WebSocket is closed and the keepalive
\* task is no longer running.
C2_CloseReachesClosed ==
    [][cdone' = cdone + 1 =>
          /\ sock' \in {"none", "closed"}
          /\ ping' # "running"]_vars

\* C3: once one close() call has completed, a later close() call emits no
\* event, sends nothing and leaves the session state unchanged.
C3_CloseIdempotent ==
    [][(closes' = closes + 1 /\ cdone >= 1) =>
          /\ emitted' = emitted
          /\ session_state' = session_state]_vars

\* C4: events are emitted in the order the frames arrive: the raw events,
\* in order, carry exactly the messages received; an event of a frame never
\* precedes an event of an earlier frame; and every decoded event of a frame
\* comes after that frame's raw event.
C4_ArrivalOrder ==
    /\ \A n \in DOMAIN received :
          \E i \in DOMAIN emitted :
             /\ emitted[i].kind = SoopChatEvent_RAW
             /\ emitted[i].frame = n
             /\ emitted[i].data = received[n]
    /\ \A i \in DOMAIN emitted : \A j \in (i + 1)..Len(emitted) :
          (emitted[i].frame > 0 /\ emitted[j].frame > 0)
             => emitted[i].frame <= emitted[j].frame
    /\ \A j \in DOMAIN emitted :
          (emitted[j].frame > 0 /\ emitted[j].kind # SoopChatEvent_RAW)
             => \E i \in 1..(j - 1) :
                   /\ emitted[i].kind = SoopChatEvent_RAW
                   /\ emitted[i].frame = emitted[j].frame
    /\ \A i \in DOMAIN emitted : \A j \in (i + 1)..Len(emitted) :
          (emitted[i].frame = emitted[j].frame /\ emitted[i].frame > 0)
             => emitted[i].kind = SoopChatEvent_RAW /\ j = i + 1

\* C4 witness: a local disconnect event lies between the events of an
\* acknowledged handshake and the events of a later chat frame.
C4_Witness ==
    \E i, j, k \in DOMAIN emitted :
       /\ i < j /\ j < k
       /\ emitted[i].kind = SoopChatEvent_CONNECT
       /\ emitted[j].kind = SoopChatEvent_DISCONNECT /\ emitted[j].frame = 0
       /\ emitted[k].kind = SoopChatEvent_CHAT

ScriptTypes ==
    <<ChatType_CONNECT, ChatType_ENTER_CHAT_ROOM, ChatType_CHAT,
      ChatType_DISCONNECT>>

ScriptedSession ==
    /\ closes = 0
    /\ Len(received) = 4
    /\ \A n \in 1..4 : TypeOf(received[n]) = ScriptTypes[n]

\* C5: in a session whose inbound frames are 0001, 0002, 0005, 0007 (and in
\* which the caller makes no close() call of its own), the events emitted are
\* raw, connect, raw, enter_chat_room, raw, chat, raw, disconnect, no more.
C5_ScriptedSessionEvents ==
    ScriptedSession =>
       KindsOf(emitted) =
          <<SoopChatEvent_RAW, SoopChatEvent_CONNECT,
            SoopChatEvent_RAW, SoopChatEvent_ENTER_CHAT_ROOM,
            SoopChatEvent_RAW, SoopChatEvent_CHAT,
            SoopChatEvent_RAW, SoopChatEvent_DISCONNECT>>

\* C5 witness: the scripted session has run to the end: connect() returned.
C5_Witness == ScriptedSession /\ pc = "done" /\ ws = "None" /\ ~connected

\* C6: the first frame sent is CONNECT (type 0001); a JOIN frame (type 0002)
\* is sent only after an inbound 0001 was received, one at most per 0001,
\* and carries the resolved room number.
C6_HandshakeOrder ==
    LET joins == {i \in DOMAIN sent : TypeOf(sent[i]) = ChatType_ENTER_CHAT_ROOM}
        acks == {n \in DOMAIN received : TypeOf(received[n]) = ChatType_CONNECT}
    IN  /\ sent # <<>> => TypeOf(sent[1]) = ChatType_CONNECT
        /\ joins # {} => acks # {}
        /\ \A i \in joins : part(split(sent[i]), 1) = live_detail.chat_no
        /\ Cardinality(joins) <= Cardinality(acks)

\* C6 witness: CONNECT, then after the acknowledgement a JOIN for room "99".
C6_Witness ==
    /\ Len(sent) >= 2
    /\ sent[1] = get_connect_packet
    /\ sent[2] = get_join_packet(<<57, 57>>)
    /\ live_detail.chat_no = <<57, 57>>

\* C7: when resolution returned RESULT = 0, connect() has failed with the
\* not-live failure, no WebSocket was opened, no keepalive task started, no
\* frame sent and no event emitted.
C7_NotLive ==
    (~live_detail.is_none /\ live_detail.result = 0) =>
       /\ pc = "failed"
       /\ outcome = "NotLive"
       /\ ws = "None"
       /\ sock = "none"
       /\ ping_task = "None"
       /\ ping = "none"
       /\ sent = <<>>
       /\ received = <<>>
       /\ emitted = <<>>

\* C7 witness: RESULT = 0 was resolved, and the caller has called close()
\* on the failed session too.
C7_Witness ==
    /\ ~live_detail.is_none
    /\ live_detail.result = 0
    /\ outcome = "NotLive"
    /\ cdone >= 1

\* C8: once an inbound 0007 frame has been handled, in any session state,
\* one `disconnect` event has been emitted and the socket is being closed
\* or closed.
C8_ServerDisconnect ==
    (\E n \in DOMAIN received : TypeOf(received[n]) = ChatType_DISCONNECT) =>
       /\ DisconnectCount = 1
       /\ sock \in {"closing", "closed"}

\* The inbound kind table of the specification (type code -> event kind).
InboundKind(code) ==
    IF code = ChatType_CONNECT THEN SoopChatEvent_CONNECT
    ELSE IF code = ChatType_ENTER_CHAT_ROOM THEN SoopChatEvent_ENTER_CHAT_ROOM
    ELSE IF code = ChatType_EXIT THEN SoopChatEvent_EXIT
    ELSE IF code = ChatType_CHAT THEN SoopChatEvent_CHAT
    ELSE IF code = ChatType_DISCONNECT THEN SoopChatEvent_DISCONNECT
    ELSE IF code = ChatType_ENTER_INFO THEN "enter_info"
    ELSE IF code = ChatType_TEXT_DONATION THEN SoopChatEvent_TEXT_DONATION
    ELSE IF code = ChatType_AD_BALLOON_DONATION
         THEN SoopChatEvent_AD_BALLOON_DONATION
    ELSE IF code = ChatType_SUBSCRIBE THEN SoopChatEvent_SUBSCRIBE
    ELSE IF code = ChatType_NOTIFICATION THEN SoopChatEvent_NOTIFICATION
    ELSE IF code = ChatType_VIDEO_DONATION THEN SoopChatEvent_VIDEO_DONATION
    ELSE IF code = ChatType_EMOTICON THEN SoopChatEvent_EMOTICON
    ELSE IF code = ChatType_VIEWER THEN SoopChatEvent_VIEWER
    ELSE SoopChatEvent_UNKNOWN

\* The type codes the inbound kind table names.
TableCodes == {c \in KindCodes : InboundKind(c) # SoopChatEvent_UNKNOWN}

\* C9: every well-formed frame handled is dispatched under the kind the
\* inbound table gives its type code, and under `unknown` for any other
\* 4-digit code.
C9_KindMapping ==
    \A n \in DOMAIN received :
       (parse_message_type(received[n]).ok /\ Len(TypeOf(received[n])) = 4) =>
          \E i \in DOMAIN emitted :
             /\ emitted[i].frame = n
             /\ emitted[i].kind = InboundKind(TypeOf(received[n]))

\* C10: handling a frame whose 4-digit type code is outside the inbound
\* table emits `raw` with the message and then `unknown` with the type and
\* the message's segments, and changes nothing else: the session state, the
\* socket, the keepalive task and the frames sent stay as they were, and the
\* receiver is still in its loop.
C10_UnknownFrame ==
    [][\A p \in menu :
          (/\ received' = Append(received, p)
           /\ parse_message_type(p).ok
           /\ Len(TypeOf(p)) = 4
           /\ TypeOf(p) \notin TableCodes)
          => /\ emitted' =
                   emitted \o
                   <<[kind |-> SoopChatEvent_RAW, data |-> p,
                      frame |-> Len(received) + 1],
                     [kind |-> SoopChatEvent_UNKNOWN,
                      data |-> [type |-> TypeOf(p), parts |-> split(p)],
                      frame |-> Len(received) + 1]>>
             /\ session_state' = session_state
             /\ pc' = "recv"]_vars

\* C10 witness: an `unknown` event for code 9999 carrying the segments, with
\* the 0001 acknowledgement handled after it in the same session.
C10_Witness ==
    \E i, j \in DOMAIN emitted :
       /\ i < j
       /\ emitted[i].kind = SoopChatEvent_UNKNOWN
       /\ emitted[i].data.type = <<57, 57, 57, 57>>
       /\ Len(emitted[i].data.parts) = 9
       /\ emitted[i].data.parts[2] = <<97>>
       /\ emitted[j].kind = SoopChatEvent_CONNECT
       /\ connected
       /\ sock = "open"


\* C12: on every exit of connect() after the socket was opened, the socket
\* is closed and the keepalive task is no longer running.
C12_ReleasedOnExit ==
    (pc \in {"done", "failed"} /\ sock # "none")
        => (sock = "closed" /\ ping # "running")

\* C13: a disconnect() called while the receiver is blocked on a read of an
\* open socket emits `disconnect` (once in all) and cancels the keepalive.
C13_CloseWhileBlocked ==
    [][(closes' = closes + 1 /\ pc = "recv" /\ sock = "open")
          => (DisconnectCount' = 1 /\ ping' = "cancelled")]_vars

\* C19: no PING frame is sent in a session that has not received a 0001
\* frame.
C19_NoPingBeforeAck ==
    PingsSent > 0
        => \E n \in DOMAIN received : TypeOf(received[n]) = ChatType_CONNECT

\* C20: once a PING send has failed and connect() has ended, the socket is
\* closed and `disconnect` was emitted.
C20_PingFailureCloses ==
    (ping = "exited" /\ pc \in {"done", "failed"})
        => (sock = "closed" /\ DisconnectCount = 1)


\* The chat events decoded from the scenario frame.
ScenarioChats ==
    {i \in DOMAIN emitted :
        /\ emitted[i].kind = SoopChatEvent_CHAT
        /\ emitted[i].frame > 0
        /\ received[emitted[i].frame] = FrameChatScenario}

\* C18 as stated: the scenario frame decodes to comment "X", user_id
\* "user7", username "Nick".
C18_ScenarioAsStated ==
    \A i \in ScenarioChats :
        emitted[i].data = [comment |-> <<88>>,
                           user_id |-> <<117, 115, 101, 114, 55>>,
                           username |-> <<78, 105, 99, 107>>]

\* C18 amended: the scenario frame decodes to comment "user7" (segment 1),
\* user_id "" (segment 2) and username "NickX" (segment 6).
C18_ScenarioDecoded ==
    \A i \in ScenarioChats :
        emitted[i].data = [comment |-> <<117, 115, 101, 114, 55>>,
                           user_id |-> <<>>,
                           username |-> <<78, 105, 99, 107, 88>>]

C18_Witness == ScenarioChats # {}


IsDigits(text) == \A i \in DOMAIN text : text[i] \in 48..57

\* The number a string of decimal digits denotes.
RECURSIVE decimal(_)
decimal(digits) ==
    IF digits = <<>> THEN 0
    ELSE 10 * decimal(SubSeq(digits, 1, Len(digits) - 1))
         + (digits[Len(digits)] - 48)

Recipes == {"get_connect_packet", "get_join_packet", "get_ping_packet"}

RecipeType(op) ==
    CASE op = "get_connect_packet" -> <<48, 48, 48, 49>>
      [] op = "get_join_packet" -> <<48, 48, 48, 50>>
      [] op = "get_ping_packet" -> <<48, 48, 48, 48>>

\* A codec call that raised UnicodeEncodeError: the only one is a frame
\* built from a text that holds a lone surrogate.
Raised ==
    /\ probe.op \in {"get_packet", "get_join_packet"}
    /\ ~encodable(probe.text)

\* C15: every encoded CONNECT, JOIN (any room number) and PING frame begins
\* with STARTER, parses back to the recipe's type, and carries in its six
\* digit length field the number of UTF-8 bytes of the payload that follows
\* the 14-character header.  A room number UTF-8 cannot encode has no
\* encoded frame: the call raises.
C15_CodecRoundTrip ==
    probe.op \in Recipes =>
        IF Raised
        THEN probe.out = UnicodeEncodeError
        ELSE /\ startswith(probe.out, STARTER)
             /\ parse_message_type(probe.out).ok
             /\ parse_message_type(probe.out).type = RecipeType(probe.op)
             /\ Len(probe.out) >= 14
             /\ IsDigits(SubSeq(probe.out, 7, 12))
             /\ SubSeq(probe.out, 13, 14) = <<48, 48>>
             /\ decimal(SubSeq(probe.out, 7, 12))
                   = Len(utf8_bytes(SubSeq(probe.out, 15, Len(probe.out))))

\* A JOIN frame for a room number of a 4-byte and a 2-byte character: the
\* payload is 12 bytes in 8 characters.
C15_Witness ==
    /\ probe.op = "get_join_packet"
    /\ probe.text = <<128512, 233>>
    /\ SubSeq(probe.out, 7, 12) = <<48, 48, 48, 48, 49, 50>>
    /\ Len(probe.out) = 22

\* The segment at index i (0-based) of the input, "" when there is none.
segment(segs, i) == IF i < Len(segs) THEN segs[i + 1] ELSE <<>>

\* C16: each decoded field is the input's segment at its index (connect
\* 1/2, enter_chat_room 2/7, chat 1/2/6, notification 4, donation 2/3/4/5,
\* emoticon 3/6/7), unchanged, and the empty string when the input has no
\* such segment.
C16_PositionalExtraction ==
    /\ probe.op = "parse_connect" =>
          probe.out = [username |-> segment(probe.segs, 1),
                       syn |-> segment(probe.segs, 2)]
    /\ probe.op = "parse_enter_chat_room" =>
          probe.out = [streamer_id |-> segment(probe.segs, 2),
                       syn_ack |-> segment(probe.segs, 7)]
    /\ probe.op = "parse_chat" =>
          probe.out = [comment |-> segment(probe.segs, 1),
                       user_id |-> segment(probe.segs, 2),
                       username |-> segment(probe.segs, 6)]
    /\ probe.op = "parse_notification" =>
          probe.out = [notification |-> segment(probe.segs, 4)]
    /\ probe.op = "parse_donation" =>
          probe.out = [to |-> segment(probe.segs, 2),
                       from |-> segment(probe.segs, 3),
                       from_username |-> segment(probe.segs, 4),
                       amount |-> segment(probe.segs, 5)]
    /\ probe.op = "parse_emoticon" =>
          probe.out = [emoticon_id |-> segment(probe.segs, 3),
                       user_id |-> segment(probe.segs, 6),
                       username |-> segment(probe.segs, 7)]

\* A donation decoded from a message of five segments: sender name present,
\* amount missing.
C16_Witness ==
    /\ probe.op = "parse_donation"
    /\ Len(probe.segs) = 5
    /\ probe.out.from_username = <<101, 52>>
    /\ probe.out.amount = <<>>


\* The keepalive loop is asleep: no sleep that has ended is still to resume.
Asleep == ping = "running" /\ now < wake

\* C17: while the session is open, the PINGs sent when the clock has
\* advanced by t seconds since the keepalive started are one per elapsed
\* 60 s: none at 59, one at 60, three at 180.
C17_KeepaliveCadence ==
    (sock = "open" /\ Asleep) =>
        /\ PingsSent = now \div 60
        /\ now = 59 => PingsSent = 0
        /\ now = 60 => PingsSent = 1
        /\ now = 180 => PingsSent = 3

C17_Witness ==
    /\ sock = "open"
    /\ Asleep
    /\ now = 180
    /\ PingsSent = 3
    /\ sent = <<get_connect_packet, get_ping_packet, get_ping_packet,
                get_ping_packet>>


\* The decoded kind of the n-th inbound message.
DecodedKind(n) == branch_of(TypeOf(received[n]))

\* C11: a handler that raises is contained: connect() does not end with the
\* handler's exception, and every well-formed frame handled still has its
\* decoded-kind event dispatched.
C11_HandlerFaultContained ==
    /\ outcome # "HandlerFault"
    /\ \A n \in DOMAIN received :
          (/\ parse_message_type(received[n]).ok
           /\ DecodedKind(n) # SoopChatEvent_DISCONNECT)
             => \E i \in DOMAIN emitted :
                   emitted[i].frame = n /\ emitted[i].kind = DecodedKind(n)

\* The handlers invoked for the n-th emit, in the order of their calls.
HandlersCalled(log, n) ==
    LET of_emit == SelectSeq(log, LAMBDA c : c.emit = n)
    IN  [j \in DOMAIN of_emit |-> of_emit[j].handler]

\* C14: every emit invokes the handlers subscribed to its kind, each once
\* per subscription, in registration order, before the step ends.
C14_EmitInvokesAll ==
    [][\A n \in (Len(emitted) + 1)..Len(emitted') :
          HandlersCalled(calls', n) = handlers[emitted'[n].kind]]_vars


\* The events emitted while the n-th inbound message was handled.
EventsOf(n) == {i \in DOMAIN emitted : emitted[i].frame = n}

\* C21: an inbound message that does not begin with STARTER emits no event,
\* neither `raw` nor a decoded kind.
C21_NoStarterNoEvent ==
    \A n \in DOMAIN received :
        ~startswith(received[n], STARTER) => EventsOf(n) = {}

\* C22: an inbound message that begins with STARTER and is shorter than the
\* 14-character header has no decoded-kind event.
C22_ShortFrameDropped ==
    \A n \in DOMAIN received :
        (startswith(received[n], STARTER) /\ Len(received[n]) < 14)
            => \A i \in EventsOf(n) : emitted[i].kind = SoopChatEvent_RAW

\* C23: the entered flag is set only in a session that has received a 0001
\* frame and sent JOIN.
C23_EnteredOnlyAfterJoin ==
    entered =>
        /\ \E n \in DOMAIN received : TypeOf(received[n]) = ChatType_CONNECT
        /\ \E i \in DOMAIN sent : sent[i] = get_join_packet(live_detail.chat_no)

\* C24: at the moment `disconnect` is emitted the keepalive task is no
\* longer running and the socket is closed.
C24_TeardownBeforeEvent ==
    [][DisconnectCount' > DisconnectCount
          => (ping # "running" /\ sock = "closed")]_vars


\* C25: the length field of an encoded frame is six digits and denotes the
\* number of UTF-8 bytes of the payload, which exceeds the number of its
\* characters as soon as one of them is multi-byte.  A payload UTF-8 cannot
\* encode has no byte count and no encoded frame: the call raises.
C25_LengthIsByteCount ==
    probe.op = "get_packet" =>
        IF Raised
        THEN probe.out = UnicodeEncodeError
        ELSE LET field == SubSeq(probe.out, 7, 12)
             IN  /\ Len(field) = 6
                 /\ IsDigits(field)
                 /\ decimal(field) = Len(utf8_bytes(probe.text))
                 /\ SubSeq(probe.out, 15, Len(probe.out)) = probe.text
                 /\ (\E i \in DOMAIN probe.text : probe.text[i] > 127)
                       => decimal(field) > Len(probe.text)

\* A payload of a 3-byte and a 4-byte character: the field reads 000007.
C25_Witness ==
    /\ probe.op = "get_packet"
    /\ probe.text = <<44032, 128512>>
    /\ SubSeq(probe.out, 7, 12) = <<48, 48, 48, 48, 48, 55>>


\* What a disconnect() that does nothing leaves alone.
client_fields ==
    <<ws, sock, ping_task, ping, handlers, connected, entered, sent,
      live_detail>>

\* C26: a disconnect() called while self._connected is false emits nothing,
\* invokes no handler and changes neither the socket reference, the
\* keepalive task, the handler table nor the flags; whether a caller makes
\* the call, the 0007 branch (whose frame has its `raw` event only) or the
\* except clause of the receive loop.
C26_DisconnectNoOp ==
    [][/\ (closes' = closes + 1 /\ ~connected)
            => UNCHANGED <<emitted, calls, client_fields>>
       /\ (/\ Len(received') = Len(received) + 1
           /\ TypeOf(received'[Len(received')]) = ChatType_DISCONNECT
           /\ ~connected)
            => /\ Len(emitted') = Len(emitted) + 1
               /\ emitted'[Len(emitted')].kind = SoopChatEvent_RAW
               /\ \A c \in (Len(calls) + 1)..Len(calls') :
                     calls'[c].kind = SoopChatEvent_RAW
               /\ UNCHANGED client_fields
       /\ (/\ pc = "recv" /\ sock = "closed" /\ ~connected
           /\ pc' = "done" /\ received' = received)
            => UNCHANGED <<emitted, calls, client_fields>>]_vars

\* Two disconnect() calls of a caller have returned, one of which did
\* nothing: one `disconnect` event, its subscriber invoked once.
C26_Witness ==
    /\ closes = 2
    /\ cdone = 2
    /\ ~connected
    /\ DisconnectCount = 1
    /\ handlers[SoopChatEvent_DISCONNECT] = <<"h1">>
    /\ Cardinality({c \in DOMAIN calls :
                      calls[c].kind = SoopChatEvent_DISCONNECT}) = 1


\* Everything but the subscription table.
other_vars ==
    <<pc, outcome, live_detail, ws, sock, close_err, connected, entered,
      ping_task, ping, sent, received, emitted, menu, rooms, cpc, closes,
      cdone, calls, now, wake, probe>>

\* C30: a step that changes the subscription table appends one handler to
\* one kind's list and leaves every other list as it was; a step of any
\* other operation (a step that changes anything else) leaves the table
\* alone; and an emit of a kind without subscribers invokes no handler.
C30_TableOnlyGrows ==
    [][/\ handlers' # handlers =>
            \E k \in EventKinds, h \in HandlerIds :
                handlers' = [handlers EXCEPT ![k] = Append(@, h)]
       /\ other_vars' # other_vars => handlers' = handlers
       /\ \A n \in (Len(emitted) + 1)..Len(emitted') :
             handlers[emitted'[n].kind] = <<>>
                => \A c \in DOMAIN calls' : calls'[c].emit # n]_vars

\* The same handler subscribed twice to `raw` and invoked twice for the raw
\* event of a 0001 frame, whose `connect` event has no subscriber.
C30_Witness ==
    /\ handlers[SoopChatEvent_RAW] = <<"h1", "h1">>
    /\ KindsOf(emitted) = <<SoopChatEvent_RAW, SoopChatEvent_CONNECT>>
    /\ Len(calls) = 2
    /\ \A c \in DOMAIN calls : calls[c].emit = 1 /\ calls[c].handler = "h1"


\* The 0001 frames processed, the JOIN frames sent, the connect events.
AcksProcessed ==
    Cardinality({n \in DOMAIN received : TypeOf(received[n]) = ChatType_CONNECT})

JoinsSent ==
    Cardinality({i \in DOMAIN sent : TypeOf(sent[i]) = ChatType_ENTER_CHAT_ROOM})

ConnectEvents ==
    Cardinality({i \in DOMAIN emitted : emitted[i].kind = SoopChatEvent_CONNECT})

\* C27 as stated: the JOIN frames sent are as many as the 0001 frames
\* processed.
C27_JoinPerAck == JoinsSent = AcksProcessed

\* C27 amended: every 0001 frame processed emits one `connect` event and,
\* whatever the flags, sends one JOIN when the socket reference is set, the
\* socket is open and the room number can be encoded; otherwise nothing is
\* sent and the handling of the frame does not complete.
C27_JoinPerOpenAck ==
    [][(/\ Len(received') = Len(received) + 1
        /\ TypeOf(received'[Len(received')]) = ChatType_CONNECT)
          => /\ ConnectEvents' = ConnectEvents + 1
             /\ connected'
             /\ IF ws # "None" /\ sock = "open"
                   /\ encodable(live_detail.chat_no)
                THEN /\ sent' = Append(sent, get_join_packet(live_detail.chat_no))
                     /\ pc' = pc
                ELSE /\ sent' = sent
                     /\ pc' \in {"join_wait", "disc_exc", "failed"}]_vars

\* A repeated 0001 on an open socket: two connect events, two JOIN frames.
C27_Witness ==
    /\ AcksProcessed = 2
    /\ ConnectEvents = 2
    /\ JoinsSent = 2
    /\ sock = "open"


\* A disconnect() that started with self._connected true has completed:
\* `disconnect` was emitted and the flag has been cleared since.
Completed == DisconnectCount > 0 /\ ~connected

\* C29: once such a disconnect() has completed, the socket reference and
\* the keepalive task reference are cleared, the keepalive task is not
\* running and the flag is false; and from then on it stays so and no frame
\* is sent.  (Violated: a 0001 read after the close sets the flag again.)
C29_AfterDisconnect ==
    [][/\ Completed' =>
            /\ ws' = "None"
            /\ ping_task' = "None"
            /\ ping' \in {"cancelled", "exited"}
            /\ sock' = "closed"
       /\ Completed => (Completed' /\ sent' = sent)]_vars

\* A completed disconnect() of a session that had sent a PING, the caller's
\* call returned and connect() ended.
C29_Witness ==
    /\ Completed
    /\ PingsSent = 1
    /\ ping = "cancelled"
    /\ cdone > 0
    /\ cpc = "idle"
    /\ pc = "done"


\* C28: a connect() called while self._connected is true ends with
\* 'Already connected' and changes nothing: no resolution (the room
\* descriptor is kept), no socket, no keepalive task, no frame, no event.
C28_AlreadyConnected ==
    [][(pc = "idle" /\ connected /\ pc' # pc)
          => /\ pc' = "failed"
             /\ outcome' = "AlreadyConnected"
             /\ UNCHANGED <<live_detail, ws, sock, close_err, connected,
                            entered, ping_task, ping, sent, received, emitted,
                            cpc, closes, cdone, handlers, calls>>]_vars

\* A second connect() refused on a client whose first session was
\* acknowledged and then closed by the server.
C28_Witness ==
    /\ outcome = "AlreadyConnected"
    /\ connected
    /\ ConnectsSent = 1
    /\ ws = "ws"
    /\ sock = "closed"

============================================================================
